---------------------------- MODULE Spec2Model ----------------------------
(***************************************************************************)
(* Model of the integrated music generator with gesture control             *)
(* (src/integrated_music_gesture_control.py).                               *)
(*                                                                          *)
(* Two threads share one MIDI output port:                                  *)
(*   - the main thread runs IntegratedMusicGestureSystem.generate: the      *)
(*     melodic loop (predict, play_note, update_sequence) and, in its       *)
(*     finally block, the shutdown cleanup;                                 *)
(*   - the gesture thread runs gesture_control_loop, which turns hand       *)
(*     samples into control-change messages through                         *)
(*     GestureMIDIController.process_hand_data / send_cc.                   *)
(*                                                                          *)
(* A third thread runs the visualization server: send_to_visualization      *)
(* hands each note event to its event loop, where broadcast_note sends it   *)
(* to the connected viewers.                                                *)
(*                                                                          *)
(* Units.  Times (step, duration) are integers counted in tenths of a       *)
(* second.  Hand coordinates are integers counted in 1/Grid of the frame.   *)
(* A quotient x / d of the code is kept as the pair <<x, d>>.               *)
(***************************************************************************)
EXTENDS Integers, Sequences, FiniteSets

(***************************************************************************)
(* Bounds of the model.                                                     *)
(***************************************************************************)
MaxNotes == 2            \* notes per session without gesture control
MaxSessionNotes == 1     \* notes per session with both threads
MaxFrames == 1           \* hand samples per session with both threads
MaxHandFrames == 2       \* hand samples given to the controller alone
MaxSmoothFrames == 6     \* hand samples of a run that fills the smoothing buffers
MaxDirectCalls == 4      \* send_cc calls made on the controller alone
Grid == 10               \* hand coordinates are counted in 1/Grid
MaxVizNotes == 1         \* notes per session with viewers
MaxViewers == 2          \* viewers that connect to the visualization server
MaxEventNotes == 2       \* notes per session whose events are followed

(***************************************************************************)
(* Program constants.                                                       *)
(***************************************************************************)
SEQUENCE_LENGTH == 25
VOCAB_SIZE == 128
NumPitches == 128
DedupThreshold == 2
BufferMaxLen == 5
CC_FILTER_CUTOFF == 74
CC_RESONANCE == 71
CC_REVERB == 91
CC_CHORUS == 93
CC_MODULATION == 1
CC_EXPRESSION == 11
DefaultChannel == 0
velocity == 80
min_duration == 1
max_duration == 20
temperature == 20

VARIABLES
    \* arguments of generate() and of the constructor
    num_notes,          \* <<>> for None, <<n>> for a count limit n
    enable_gesture,
    speed,
    speedB,             \* speed multiplier of a second run fed the same model outputs
    arg_velocity,       \* args.velocity
    arg_min_duration,   \* args.min_duration
    arg_max_duration,   \* args.max_duration
    arg_temperature,    \* args.temperature, in tenths
    enable_websocket,
    \* main thread (main, generate)
    pc,                 \* position of the main thread
    cause,              \* why the loop ended: "none", "limit", "interrupt", "error"
    count,              \* notes completed
    note,               \* the note of the current iteration
    noteB,              \* the same, in the second run
    current_notes,      \* the context window
    notesB,             \* the context window of the second run
    seedRows,           \* the rows the window was seeded with
    absorbed,           \* the arguments of the update_sequence calls so far
    prev_start,
    trace,              \* the events of generate so far, in order
    offNote,            \* cleanup: note-offs sent so far
    ccIdx,              \* cleanup: control resets sent so far
    failedSend,         \* cleanup: the kind of the send that raised, or "none"
    \* gesture thread and controller
    gpc,                \* position of the gesture thread
    gesture_running,
    todo,               \* send_cc calls of the current process_hand_data still to make
    frames,             \* hand samples processed
    position_buffer_x,
    position_buffer_y,
    last_cc_values,
    lastGesture,        \* label of the latest hand sample
    prevGesture,        \* label of the hand sample before it
    frameStart,         \* Len(ccWrites) when the latest process_hand_data began
    callStart,          \* Len(ccCalls) when the latest process_hand_data began
    samplesSeen,        \* the hand samples given to process_hand_data so far
    camera,             \* cap and hand_tracker: "none", "open" or "released"
    \* SimpleHarmonyGenerator
    style,              \* self.style
    melody_pitch,       \* the argument of generate_harmony
    interval,           \* the interval random.choices drew
    harmony_pitch,      \* the value generate_harmony returned
    hpc,                \* "idle" before the call, "returned" after it, then the
                        \* position inside play_notes
    poly_lock,          \* play_notes: the local midi_lock, "free" or "held"
    poly_out,           \* the messages play_notes has written, in order
    \* history of generate
    note_data,          \* the events passed to send_to_visualization, in order
    played,             \* the arguments of the play_note calls, in order
    ccCalls,            \* the send_cc calls made so far, in order
    \* output port
    midi_lock,          \* "free", or the thread inside a with-midi_lock block
    midi_open,
    sounding,           \* pitches with a note-on and no note-off since
    ccDev,              \* last control value the port received, per (control, channel)
    ccSent,             \* (control, channel) keys the controller has written
    resetKeys,          \* (control, channel) keys the cleanup has reset
    lastWrite,          \* who wrote the last message and who held the lock then
    lastNote,           \* pitch and velocity of the last note message written
    melodic,            \* note messages written by play_note, in order
    ccWrites,           \* control changes written by send_cc, in order
    \* visualization: the event loop thread and its viewers
    ws_loop,            \* "none", "starting" (thread launched), "running" (loop set)
    ws_clients,
    ws_queue,           \* broadcast_note coroutines handed to the loop, not yet run
    serialized,         \* the events json.dumps has been called on, in order
    attempts,           \* the client.send calls started, in order
    broadcasts          \* the broadcast_note runs: event, viewers and failing viewers

cfgVars == <<num_notes, enable_gesture, speed, speedB, arg_velocity, arg_min_duration,
             arg_max_duration, arg_temperature, enable_websocket>>
loopVars == <<count, note, noteB, current_notes, notesB, seedRows, absorbed, prev_start>>
cleanVars == <<offNote, ccIdx, failedSend>>
ctlVars == <<todo, frames, position_buffer_x, position_buffer_y, last_cc_values,
             lastGesture, prevGesture, frameStart, callStart, samplesSeen, ccCalls>>
portVars == <<midi_open, sounding, ccDev, ccSent, resetKeys, lastWrite, lastNote, melodic,
              ccWrites>>
wsVars == <<ws_loop, ws_clients, ws_queue, serialized, attempts, broadcasts>>
harmVars == <<style, melody_pitch, interval, harmony_pitch, hpc, poly_lock, poly_out>>
evVars == <<note_data, played>>
sessionVars == <<cfgVars, pc, cause, loopVars, cleanVars, gpc, gesture_running, ctlVars,
                 midi_lock, portVars, trace, wsVars, camera, evVars>>
vars == <<sessionVars, harmVars>>

(***************************************************************************)
(* Arithmetic helpers.                                                      *)
(***************************************************************************)
Abs(x) == IF x < 0 THEN 0 - x ELSE x
Min(a, b) == IF a < b THEN a ELSE b
Max(a, b) == IF a > b THEN a ELSE b

RECURSIVE SumSeq(_)
SumSeq(s) == IF s = <<>> THEN 0 ELSE Head(s) + SumSeq(Tail(s))

\* dict[key] = value
DictSet(d, key, value) ==
    [k \in DOMAIN d \cup {key} |-> IF k = key THEN value ELSE d[k]]

(***************************************************************************)
(* GestureMIDIController: pure parts.                                       *)
(***************************************************************************)
\* normalize_to_midi without the clamp to [0, 1]
NormalizeToMidi_NoClamp(n, d) == (127 * n) \div d

\* normalize_to_midi applied to the quotient n / d (d > 0):
\* int(max(0.0, min(1.0, n / d)) * 127)
NormalizeToMidi(n, d) ==
    IF n <= 0 THEN 0
    ELSE IF n >= d THEN 127
    ELSE (127 * n) \div d

\* deque(maxlen=5).append
DequeAppend(buffer, v) ==
    IF Len(buffer) = BufferMaxLen THEN Append(Tail(buffer), v)
    ELSE Append(buffer, v)

\* normalize_to_midi(sqrt(dx^2 + dy^2), 0.0, 0.3), dx and dy in 1/Grid:
\* the largest m in 0..127 with m <= 127 * sqrt(dx^2 + dy^2) / (0.3 * Grid)
ResonanceValue(dx, dy) ==
    LET n == dx * dx + dy * dy
    IN  IF 100 * n >= 9 * Grid * Grid THEN 127
        ELSE CHOOSE m \in 0..127 :
                /\ (3 * Grid * m) * (3 * Grid * m) <= 1270 * 1270 * n
                /\ (3 * Grid * (m + 1)) * (3 * Grid * (m + 1)) > 1270 * 1270 * n

\* the gesture branch of process_hand_data with the Closed Fist branch
\* writing the chorus only
GestureOverrides_FistChorusOnly(gesture) ==
    IF gesture = "Open Palm" THEN << [cc |-> CC_CHORUS, value |-> 127] >>
    ELSE IF gesture = "Closed Fist" THEN << [cc |-> CC_CHORUS, value |-> 0] >>
    ELSE IF gesture = "Peace Sign" THEN << [cc |-> CC_MODULATION, value |-> 64] >>
    ELSE IF gesture = "Rock On" THEN << [cc |-> CC_MODULATION, value |-> 127] >>
    ELSE << >>

\* the gesture branch of process_hand_data
GestureOverrides(gesture) ==
    IF gesture = "Open Palm" THEN << [cc |-> CC_CHORUS, value |-> 127] >>
    ELSE IF gesture = "Closed Fist" THEN << [cc |-> CC_CHORUS, value |-> 0],
                                            [cc |-> CC_MODULATION, value |-> 0] >>
    ELSE IF gesture = "Peace Sign" THEN << [cc |-> CC_MODULATION, value |-> 64] >>
    ELSE IF gesture = "Rock On" THEN << [cc |-> CC_MODULATION, value |-> 127] >>
    ELSE << >>

\* the three continuous mappings of process_hand_data, from the smoothing
\* buffers after the new sample has been appended
ContinuousCalls(s, bx, by) ==
    << [cc |-> CC_FILTER_CUTOFF,
        value |-> NormalizeToMidi(SumSeq(bx), Len(bx) * Grid)],
       [cc |-> CC_REVERB,
        value |-> NormalizeToMidi(Len(by) * Grid - SumSeq(by), Len(by) * Grid)],
       [cc |-> CC_RESONANCE,
        value |-> ResonanceValue(s.tx - s.ix, s.ty - s.iy)] >>

\* every send_cc call one process_hand_data makes, in order
HandCalls(s, bx, by) == ContinuousCalls(s, bx, by) \o GestureOverrides(s.gesture)

\* send_cc with the threshold test off by one
Suppressed_OffByOne(last, key, value) ==
    /\ key \in DOMAIN last
    /\ Abs(last[key] - value) <= DedupThreshold

\* send_cc without the early return
Suppressed_Never(last, key, value) == FALSE

\* send_cc: the early return
Suppressed(last, key, value) ==
    /\ key \in DOMAIN last
    /\ Abs(last[key] - value) < DedupThreshold

\* send_cc is always called with the default channel
CcKey(cc) == <<cc, DefaultChannel>>

(***************************************************************************)
(* The output port.                                                         *)
(***************************************************************************)
NoWrite == [by |-> "none", holder |-> "free"]

\* play_note with only the lower clamp
ClampMidi_NoUpper(x) == Max(0, x)

\* play_note: the clamps
ClampMidi(x) == Max(0, Min(127, x))

\* the velocity of the message: play_note sends its note-on with the clamped
\* velocity, every note-off is sent with velocity 0
NoteVelocity(kind) == IF kind = "note_on" THEN ClampMidi(arg_velocity) ELSE 0

PortNote(by, kind, pitch) ==
    /\ sounding' = IF kind = "note_on" THEN sounding \cup {pitch} ELSE sounding \ {pitch}
    /\ lastWrite' = [by |-> by, holder |-> midi_lock]
    /\ lastNote' = [pitch |-> pitch, velocity |-> NoteVelocity(kind)]
    /\ UNCHANGED ccDev

PortCC(by, cc, channel, value) ==
    /\ ccDev' = DictSet(ccDev, <<cc, channel>>, value)
    /\ lastWrite' = [by |-> by, holder |-> midi_lock]
    /\ UNCHANGED <<sounding, lastNote>>

(***************************************************************************)
(* The gesture thread: gesture_control_loop, process_hand_data, send_cc.    *)
(* A send_cc call that returns early takes no step of its own: the calls    *)
(* up to the next one that reaches the with statement are made in the step  *)
(* before it.                                                               *)
(***************************************************************************)
\* the calls left once the leading calls that return early are dropped
RECURSIVE SkipSuppressed(_, _)
SkipSuppressed(last, calls) ==
    IF calls = <<>> THEN <<>>
    ELSE IF Suppressed(last, CcKey(Head(calls).cc), Head(calls).value)
         THEN SkipSuppressed(last, Tail(calls))
         ELSE calls

\* the calls made on the way: the ones dropped and the one that goes on
CallsMade(calls, rest) ==
    SubSeq(calls, 1, Len(calls) - Len(rest) + (IF rest = <<>> THEN 0 ELSE 1))

\* send_cc: self.last_cc_values[key] = value, for the call that goes on
AfterCheck(last, rest) ==
    IF rest = <<>> THEN last
    ELSE DictSet(last, CcKey(Head(rest).cc), Head(rest).value)

AfterCall(rest) == IF rest = <<>> THEN "loop" ELSE "cc_lock"

\* hand samples the tracker delivers in a session with both threads
SessionSamples ==
    { [ix |-> 0, iy |-> 0, tx |-> 0, ty |-> 0, gesture |-> "Open Palm"] }

\* hand samples given to the controller alone
Gestures == {"Open Palm", "Closed Fist", "Peace Sign", "Rock On", "Pointing"}
HandSamples ==
    { [ix |-> x, iy |-> y, tx |-> x + d, ty |-> y, gesture |-> g] :
        x \in {0, Grid}, y \in {0, Grid}, d \in {0, 3}, g \in Gestures }

\* hand samples of a longer run of process_hand_data calls: landmarks inside
\* and outside the frame (MediaPipe coordinates may leave [0, 1])
SmoothSamples ==
    { [ix |-> 0, iy |-> 0, tx |-> 0, ty |-> 0, gesture |-> "Open Palm"],
      [ix |-> Grid, iy |-> Grid, tx |-> Grid + 3, ty |-> Grid, gesture |-> "Closed Fist"],
      [ix |-> 0 - 2, iy |-> Grid + 2, tx |-> 3, ty |-> Grid + 2, gesture |-> "Pointing"],
      [ix |-> Grid + 2, iy |-> 0 - 2, tx |-> Grid + 3, ty |-> 0 - 2, gesture |-> "Peace Sign"] }

\* control numbers and values of the send_cc calls made on the controller alone
DirectCCs == {CC_FILTER_CUTOFF, CC_EXPRESSION}
DirectValues == 50..53

\* cv2.VideoCapture, the warm-up sleep and the warm-up frames
GestureInit ==
    /\ gpc = "init"
    /\ \E opened \in BOOLEAN :
          /\ gpc' = IF opened THEN "loop" ELSE "exited"
          /\ camera' = IF opened THEN "open" ELSE camera
    /\ UNCHANGED <<harmVars, evVars>>
    /\ UNCHANGED <<cfgVars, pc, cause, loopVars, cleanVars, gesture_running, ctlVars,
                   midi_lock, portVars>>
    /\ UNCHANGED <<trace, wsVars>>

\* one loop iteration with a hand in the frame: process_hand_data up to the
\* first with statement
GestureFrame(samples, cap) ==
    /\ gpc = "loop"
    /\ gesture_running
    /\ frames < cap
    /\ \E s \in samples :
          LET bx == DequeAppend(position_buffer_x, s.ix)
              by == DequeAppend(position_buffer_y, s.iy)
              calls == HandCalls(s, bx, by)
              rest == SkipSuppressed(last_cc_values, calls)
          IN  /\ position_buffer_x' = bx
              /\ position_buffer_y' = by
              /\ prevGesture' = lastGesture
              /\ lastGesture' = s.gesture
              /\ samplesSeen' = Append(samplesSeen, s)
              /\ ccCalls' = ccCalls \o CallsMade(calls, rest)
              /\ last_cc_values' = AfterCheck(last_cc_values, rest)
              /\ todo' = rest
              /\ gpc' = AfterCall(rest)
    /\ frames' = frames + 1
    /\ frameStart' = Len(ccWrites)
    /\ callStart' = Len(ccCalls)
    /\ UNCHANGED <<cfgVars, pc, cause, loopVars, cleanVars, gesture_running, midi_lock,
                   portVars>>
    /\ UNCHANGED <<trace, wsVars>>
    /\ UNCHANGED <<camera, harmVars, evVars>>

\* one send_cc call made on the controller alone, up to the with statement
DirectCall(ccs, values, cap) ==
    /\ gpc = "loop"
    /\ gesture_running
    /\ Len(ccCalls) < cap
    /\ \E cc \in ccs, v \in values :
          LET calls == << [cc |-> cc, value |-> v] >>
              rest == SkipSuppressed(last_cc_values, calls)
          IN  /\ ccCalls' = ccCalls \o CallsMade(calls, rest)
              /\ last_cc_values' = AfterCheck(last_cc_values, rest)
              /\ todo' = rest
              /\ gpc' = AfterCall(rest)
    /\ UNCHANGED <<cfgVars, pc, cause, loopVars, cleanVars, gesture_running, midi_lock,
                   portVars, frames, position_buffer_x, position_buffer_y, lastGesture,
                   prevGesture, frameStart, callStart, samplesSeen>>
    /\ UNCHANGED <<trace, wsVars>>
    /\ UNCHANGED <<camera, harmVars, evVars>>

\* the while condition is false: cap.release(), hand_tracker.release()
GestureExit ==
    /\ gpc = "loop"
    /\ ~gesture_running
    /\ gpc' = "exited"
    /\ camera' = "released"
    /\ UNCHANGED <<harmVars, evVars>>
    /\ UNCHANGED <<cfgVars, pc, cause, loopVars, cleanVars, gesture_running, ctlVars,
                   midi_lock, portVars>>
    /\ UNCHANGED <<trace, wsVars>>

\* send_cc: entering the with statement
GestureAcquire ==
    /\ gpc = "cc_lock"
    /\ midi_lock = "free"
    /\ midi_lock' = "gesture"
    /\ gpc' = "cc_send"
    /\ UNCHANGED <<cfgVars, pc, cause, loopVars, cleanVars, gesture_running, ctlVars,
                   portVars>>
    /\ UNCHANGED <<trace, wsVars>>
    /\ UNCHANGED <<camera, harmVars, evVars>>

\* send_cc with acquire and release calls in place of the with statement:
\* a send that raises leaves the lock held
GestureSend_LeaksOnError ==
    /\ gpc = "cc_send"
    /\ \E ok \in BOOLEAN :
          IF ok /\ midi_open
          THEN LET c == Head(todo)
                   rest == SkipSuppressed(last_cc_values, Tail(todo))
               IN  /\ PortCC("gesture", c.cc, DefaultChannel, c.value)
                   /\ midi_lock' = "free"
                   /\ ccSent' = ccSent \cup {CcKey(c.cc)}
                   /\ ccWrites' = Append(ccWrites, c)
                   /\ ccCalls' = ccCalls \o CallsMade(Tail(todo), rest)
                   /\ last_cc_values' = AfterCheck(last_cc_values, rest)
                   /\ todo' = rest
                   /\ gpc' = AfterCall(rest)
          ELSE /\ gpc' = "died"
               /\ midi_lock' = midi_lock
               /\ UNCHANGED <<todo, last_cc_values, ccCalls, sounding, ccDev, ccSent,
                              lastWrite, lastNote, ccWrites>>
    /\ UNCHANGED <<cfgVars, pc, cause, loopVars, cleanVars, gesture_running, frames,
                   position_buffer_x, position_buffer_y, lastGesture, prevGesture,
                   frameStart, callStart, samplesSeen, midi_open, resetKeys, melodic>>
    /\ UNCHANGED <<trace, wsVars>>
    /\ UNCHANGED <<camera, harmVars, evVars>>

\* send_cc: midi_out.send(msg) and leaving the with statement, then the
\* calls up to the next with statement.  A send that raises ends the thread.
GestureSend ==
    /\ gpc = "cc_send"
    /\ midi_lock' = "free"
    /\ \E ok \in BOOLEAN :
          IF ok /\ midi_open
          THEN LET c == Head(todo)
                   rest == SkipSuppressed(last_cc_values, Tail(todo))
               IN  /\ PortCC("gesture", c.cc, DefaultChannel, c.value)
                   /\ ccSent' = ccSent \cup {CcKey(c.cc)}
                   /\ ccWrites' = Append(ccWrites, c)
                   /\ ccCalls' = ccCalls \o CallsMade(Tail(todo), rest)
                   /\ last_cc_values' = AfterCheck(last_cc_values, rest)
                   /\ todo' = rest
                   /\ gpc' = AfterCall(rest)
          ELSE /\ gpc' = "died"
               /\ UNCHANGED <<todo, last_cc_values, ccCalls, sounding, ccDev, ccSent,
                              lastWrite, lastNote, ccWrites>>
    /\ UNCHANGED <<cfgVars, pc, cause, loopVars, cleanVars, gesture_running, frames,
                   position_buffer_x, position_buffer_y, lastGesture, prevGesture,
                   frameStart, callStart, samplesSeen, midi_open, resetKeys, melodic>>
    /\ UNCHANGED <<trace, wsVars>>
    /\ UNCHANGED <<camera, harmVars, evVars>>

(***************************************************************************)
(* The context window and the note of one iteration.                        *)
(***************************************************************************)
\* row / np.array([vocab_size, 1, 1])
Normalize(row) == << <<row[1], VOCAB_SIZE>>, <<row[2], 1>>, <<row[3], 1>> >>

NormalizeAll(rows) == [i \in 1..Len(rows) |-> Normalize(rows[i])]

c_major == <<0, 2, 4, 5, 7, 9, 11, 12>>

\* load_seed_sequence without a loadable seed file: the C major seed
DefaultSeed ==
    [i \in 1..SEQUENCE_LENGTH |-> <<60 + c_major[((i - 1) % Len(c_major)) + 1], 5, 4>>]

\* the rows load_seed_sequence takes: those of the file when np.load and the
\* division succeed, the default seed otherwise
SeedRowsOf(file) == IF file.loads THEN file.rows ELSE DefaultSeed

\* update_sequence: np.delete(..., 0) then np.append of the normalized note
update_sequence(window, pitch, step, duration) ==
    Append(Tail(window), Normalize(<<pitch, step, duration>>))

\* generate clamping the duration from below only
GenerateNote_NoUpper(raw, min_d, max_d, spd) ==
    LET step == Max(0, raw.step)
        duration == Max(min_d, Max(0, raw.duration))
    IN  [pitch |-> raw.pitch, step |-> step, duration |-> duration,
         step_adjusted |-> step * spd, duration_adjusted |-> duration * spd]

\* predict_next_note on the raw model output, then the clamp and the speed
\* multiplier of generate
GenerateNote(raw, min_d, max_d, spd) ==
    LET step == Max(0, raw.step)
        duration == Max(min_d, Min(max_d, Max(0, raw.duration)))
    IN  [pitch |-> raw.pitch, step |-> step, duration |-> duration,
         step_adjusted |-> step * spd, duration_adjusted |-> duration * spd]

\* generate passing the speed-adjusted values to update_sequence
WindowNote_Adjusted(n) == <<n.pitch, n.step_adjusted, n.duration_adjusted>>

\* the arguments generate passes to update_sequence
WindowNote(n) == <<n.pitch, n.step, n.duration>>

NoNote == [pitch |-> 0, step |-> 0, duration |-> 0, step_adjusted |-> 0,
           duration_adjusted |-> 0]

\* a seed file of n rows
FileRows(n) == [i \in 1..n |-> <<40 + i, 2, 3>>]

NoFile == [loads |-> FALSE, rows |-> <<>>]

\* seed files and raw model outputs of a session with both threads
SessionSeedFiles == {NoFile}
SessionOutputs == { [pitch |-> 60, step |-> 5, duration |-> 4] }

\* seed files and raw model outputs of a session without gesture control
MelodySeedFiles ==
    {NoFile} \cup { [loads |-> TRUE, rows |-> FileRows(n)] :
                      n \in {SEQUENCE_LENGTH - 1, SEQUENCE_LENGTH, SEQUENCE_LENGTH + 1} }
MelodyOutputs ==
    { [pitch |-> 60, step |-> 5, duration |-> 4],
      [pitch |-> 62, step |-> 0 - 2, duration |-> 30] }

Speeds == {1, 2}

\* velocities and duration limits <<min, max>> given on the command line, and
\* raw model outputs, of a session that varies the arguments of generate
ArgVelocities == {0 - 1, 80, 200}
ArgDurations == {<<1, 20>>, <<3, 3>>, <<5, 3>>}
ArgTemperatures == {0 - 10, 0, 20}
ArgOutputs ==
    { [pitch |-> 0, step |-> 5, duration |-> 0 - 2],
      [pitch |-> 0, step |-> 0, duration |-> 0],
      [pitch |-> 60, step |-> 5, duration |-> 4],
      [pitch |-> 127, step |-> 0 - 1, duration |-> 30] }

(***************************************************************************)
(* The main thread: main, generate.                                         *)
(***************************************************************************)
\* play_note writing its note-on twice
NoteOnMessages_Twice(pitch, call) ==
    << [kind |-> "note_on", pitch |-> pitch, call |-> call],
       [kind |-> "note_on", pitch |-> pitch, call |-> call] >>

\* the messages play_note writes for its note-on and for its note-off
NoteOnMessages(pitch, call) == << [kind |-> "note_on", pitch |-> pitch, call |-> call] >>
NoteOffMessages(pitch, call) == << [kind |-> "note_off", pitch |-> pitch, call |-> call] >>

\* the note-off loop one pitch short
AllNotesOffCount_Short == NumPitches - 1

\* the note-off loop covering the lowest quarter of the pitches only
AllNotesOffCount_Quarter == NumPitches \div 4

\* for note in range(128)
AllNotesOffCount == NumPitches

\* the reset loop without the chorus control
ResetList_NoChorus == <<CC_MODULATION, CC_EXPRESSION, CC_RESONANCE, CC_FILTER_CUTOFF,
                        CC_REVERB>>

\* for cc in [1, 11, 71, 74, 91, 93]
ResetList == <<CC_MODULATION, CC_EXPRESSION, CC_RESONANCE, CC_FILTER_CUTOFF,
               CC_REVERB, CC_CHORUS>>

\* an event of generate: what happened, in which iteration, and how many
\* notes the context window had absorbed by then
Ev(e) == [ev |-> e, i |-> count, n |-> Len(absorbed)]

\* the loop test with <= in place of <
LoopCondition_Inclusive == IF num_notes = <<>> THEN TRUE ELSE count <= num_notes[1]

\* while num_notes is None or count < num_notes
LoopCondition == IF num_notes = <<>> THEN TRUE ELSE count < num_notes[1]

LoopPcs == {"loop", "viz", "note_on", "note_on_send", "sleep", "note_off", "note_off_send",
            "update"}

\* main: system.load_seed_sequence(args.seed)
LoadSeed(files) ==
    /\ pc = "seed"
    /\ \E file \in files :
          /\ seedRows' = SeedRowsOf(file)
          /\ current_notes' = NormalizeAll(SeedRowsOf(file))
          /\ notesB' = NormalizeAll(SeedRowsOf(file))
    /\ pc' = "start"
    /\ UNCHANGED <<cfgVars, cause, count, note, noteB, absorbed, prev_start, cleanVars,
                   gpc, gesture_running, ctlVars, midi_lock, portVars>>
    /\ UNCHANGED <<trace, wsVars>>
    /\ UNCHANGED <<camera, harmVars, evVars>>

\* start_gesture_control without its sleep: the loop is entered at once
Start_NoSettle ==
    /\ pc = "start"
    /\ pc' = "loop"
    /\ IF enable_gesture
       THEN gesture_running' = TRUE /\ gpc' = "init"
       ELSE UNCHANGED <<gesture_running, gpc>>
    /\ ws_loop' = IF enable_websocket THEN "starting" ELSE ws_loop
    /\ trace' = IF enable_gesture THEN Append(trace, Ev("launch")) ELSE trace
    /\ UNCHANGED <<cfgVars, cause, loopVars, cleanVars, ctlVars, midi_lock, portVars,
                   ws_clients, ws_queue, serialized, attempts, broadcasts>>
    /\ UNCHANGED <<camera, harmVars, evVars>>

\* generate: start_websocket_server, start_gesture_control up to its sleep
Start ==
    /\ pc = "start"
    /\ IF enable_gesture
       THEN /\ gesture_running' = TRUE
            /\ gpc' = "init"
            /\ pc' = "settle"
       ELSE /\ pc' = "loop"
            /\ UNCHANGED <<gesture_running, gpc>>
    /\ ws_loop' = IF enable_websocket THEN "starting" ELSE ws_loop
    /\ trace' = IF enable_gesture THEN Append(trace, Ev("launch")) ELSE trace
    /\ UNCHANGED <<cfgVars, cause, loopVars, cleanVars, ctlVars, midi_lock, portVars,
                   ws_clients, ws_queue, serialized, attempts, broadcasts>>
    /\ UNCHANGED <<camera, harmVars, evVars>>

\* time.sleep(3.0) of start_gesture_control returns
Settle ==
    /\ pc = "settle"
    /\ pc' = "loop"
    /\ trace' = Append(trace, Ev("settled"))
    /\ UNCHANGED <<cfgVars, cause, loopVars, cleanVars, gpc, gesture_running, ctlVars,
                   midi_lock, portVars>>
    /\ UNCHANGED wsVars
    /\ UNCHANGED <<camera, harmVars, evVars>>

\* KeyboardInterrupt in generate before the try statement: it leaves
\* generate at once
StartupInterrupt ==
    /\ pc \in {"start", "settle"}
    /\ pc' = "aborted"
    /\ UNCHANGED <<cfgVars, cause, loopVars, cleanVars, gpc, gesture_running, ctlVars,
                   midi_lock, portVars>>
    /\ UNCHANGED <<trace, wsVars>>
    /\ UNCHANGED <<camera, harmVars, evVars>>

\* the loop test, predict_next_note on the current window, the clamp and the
\* speed multiplier; the logits are divided by the temperature whatever its
\* value (a zero gives infinite or NaN logits, a negative one inverts them)
\* and categorical returns a class of the vocabulary all the same
Predict(outputs, cap) ==
    /\ pc = "loop"
    /\ LoopCondition
    /\ count < cap
    /\ \E raw \in outputs :
          /\ note' = GenerateNote(raw, arg_min_duration, arg_max_duration, speed)
          /\ noteB' = GenerateNote(raw, arg_min_duration, arg_max_duration, speedB)
    /\ pc' = "viz"
    /\ trace' = Append(trace, Ev("predict"))
    /\ UNCHANGED <<cfgVars, cause, count, current_notes, notesB, seedRows, absorbed,
                   prev_start, cleanVars, gpc, gesture_running, ctlVars, midi_lock,
                   portVars>>
    /\ UNCHANGED wsVars
    /\ UNCHANGED <<camera, harmVars, evVars>>

\* model.predict raises
PredictFails ==
    /\ pc = "loop"
    /\ LoopCondition
    /\ cause' = "error"
    /\ pc' = "finally"
    /\ trace' = Append(trace, Ev("raise"))
    /\ UNCHANGED <<cfgVars, loopVars, cleanVars, gpc, gesture_running, ctlVars,
                   midi_lock, portVars>>
    /\ UNCHANGED wsVars
    /\ UNCHANGED <<camera, harmVars, evVars>>

\* the event built with the values before the speed multiplier
NoteData_Unscaled(n, index, dispatched) ==
    [index |-> index, pitch |-> n.pitch, step |-> n.step, duration |-> n.duration,
     dispatched |-> dispatched]

\* generate: the note_data dictionary, and whether send_to_visualization
\* hands it to the event loop
NoteData(n, index, dispatched) ==
    [index |-> index, pitch |-> n.pitch, step |-> n.step_adjusted,
     duration |-> n.duration_adjusted, dispatched |-> dispatched]

\* send_to_visualization: with a running event loop and a viewer connected
\* the broadcast_note coroutine is handed to the loop; the call returns
\* without waiting on the future
Visualize ==
    /\ pc = "viz"
    /\ ws_queue' = IF enable_websocket /\ ws_loop = "running" /\ ws_clients # {}
                   THEN Append(ws_queue, count)
                   ELSE ws_queue
    /\ note_data' = Append(note_data,
                           NoteData(note, count,
                                    enable_websocket /\ ws_loop = "running"
                                        /\ ws_clients # {}))
    /\ trace' = Append(trace, Ev("viz"))
    /\ pc' = "note_on"
    /\ UNCHANGED <<cfgVars, cause, loopVars, cleanVars, gpc, gesture_running, ctlVars,
                   midi_lock, portVars, ws_loop, ws_clients, serialized, attempts,
                   broadcasts>>
    /\ UNCHANGED <<camera, harmVars, played>>

\* the loop test is false
LoopExit ==
    /\ pc = "loop"
    /\ ~LoopCondition
    /\ cause' = "limit"
    /\ pc' = "finally"
    /\ UNCHANGED <<cfgVars, loopVars, cleanVars, gpc, gesture_running, ctlVars,
                   midi_lock, portVars>>
    /\ UNCHANGED <<trace, wsVars>>
    /\ UNCHANGED <<camera, harmVars, evVars>>

\* play_note: entering either with statement.  Without a gesture controller
\* the lock is a fresh one, which is always free.
NoteAcquire ==
    /\ pc \in {"note_on", "note_off"}
    /\ midi_lock = "free"
    /\ midi_lock' = "main"
    /\ pc' = IF pc = "note_on" THEN "note_on_send" ELSE "note_off_send"
    /\ played' = IF pc = "note_on"
                 THEN Append(played, [pitch |-> note.pitch,
                                      duration |-> note.duration_adjusted])
                 ELSE played
    /\ UNCHANGED <<cfgVars, cause, loopVars, cleanVars, gpc, gesture_running, ctlVars,
                   portVars>>
    /\ UNCHANGED <<trace, wsVars>>
    /\ UNCHANGED <<camera, harmVars, note_data>>

\* play_note with one with statement around the note-on, the sleep and the
\* note-off: the lock is kept after the note-on
NoteOnSend_KeepsLock ==
    /\ pc = "note_on_send"
    /\ midi_lock' = "main"
    /\ \E ok \in BOOLEAN :
          IF ok
          THEN /\ PortNote("main", "note_on", ClampMidi(note.pitch))
               /\ melodic' = melodic \o NoteOnMessages(ClampMidi(note.pitch), count)
               /\ trace' = Append(trace, Ev("note_on"))
               /\ pc' = "sleep"
               /\ UNCHANGED cause
          ELSE /\ cause' = "error"
               /\ pc' = "finally"
               /\ UNCHANGED trace
               /\ UNCHANGED <<sounding, ccDev, lastWrite, lastNote, melodic>>
    /\ UNCHANGED <<cfgVars, loopVars, cleanVars, gpc, gesture_running, ctlVars,
                   midi_open, ccSent, resetKeys, ccWrites>>
    /\ UNCHANGED wsVars
    /\ UNCHANGED <<camera, harmVars, evVars>>

\* play_note: midi_out.send of the note-on, leaving the with statement
NoteOnSend ==
    /\ pc = "note_on_send"
    /\ midi_lock' = "free"
    /\ \E ok \in BOOLEAN :
          IF ok
          THEN /\ PortNote("main", "note_on", ClampMidi(note.pitch))
               /\ melodic' = melodic \o NoteOnMessages(ClampMidi(note.pitch), count)
               /\ trace' = Append(trace, Ev("note_on"))
               /\ pc' = "sleep"
               /\ UNCHANGED cause
          ELSE /\ cause' = "error"
               /\ pc' = "finally"
               /\ UNCHANGED trace
               /\ UNCHANGED <<sounding, ccDev, lastWrite, lastNote, melodic>>
    /\ UNCHANGED <<cfgVars, loopVars, cleanVars, gpc, gesture_running, ctlVars,
                   midi_open, ccSent, resetKeys, ccWrites>>
    /\ UNCHANGED wsVars
    /\ UNCHANGED <<camera, harmVars, evVars>>

\* play_note: time.sleep(duration) returns
Sleep ==
    /\ pc = "sleep"
    /\ pc' = "note_off"
    /\ UNCHANGED <<cfgVars, cause, loopVars, cleanVars, gpc, gesture_running, ctlVars,
                   midi_lock, portVars>>
    /\ UNCHANGED <<trace, wsVars>>
    /\ UNCHANGED <<camera, harmVars, evVars>>

\* play_note: midi_out.send of the note-off, leaving the with statement
NoteOffSend ==
    /\ pc = "note_off_send"
    /\ midi_lock' = "free"
    /\ \E ok \in BOOLEAN :
          IF ok
          THEN /\ PortNote("main", "note_off", ClampMidi(note.pitch))
               /\ melodic' = melodic \o NoteOffMessages(ClampMidi(note.pitch), count)
               /\ trace' = Append(trace, Ev("note_off"))
               /\ pc' = "update"
               /\ UNCHANGED cause
          ELSE /\ cause' = "error"
               /\ pc' = "finally"
               /\ UNCHANGED trace
               /\ UNCHANGED <<sounding, ccDev, lastWrite, lastNote, melodic>>
    /\ UNCHANGED <<cfgVars, loopVars, cleanVars, gpc, gesture_running, ctlVars,
                   midi_open, ccSent, resetKeys, ccWrites>>
    /\ UNCHANGED wsVars
    /\ UNCHANGED <<camera, harmVars, evVars>>

\* the iteration without its update_sequence call
Update_KeepsWindow ==
    /\ pc = "update"
    /\ prev_start' = prev_start + note.step
    /\ count' = count + 1
    /\ trace' = Append(trace, Ev("count"))
    /\ pc' = "loop"
    /\ UNCHANGED <<cfgVars, cause, note, noteB, current_notes, notesB, absorbed, seedRows,
                   cleanVars, gpc, gesture_running, ctlVars, midi_lock, portVars, wsVars>>
    /\ UNCHANGED <<camera, harmVars, evVars>>

\* the iteration ending with the dedup map of the controller emptied
Update_ClearsDedup ==
    /\ pc = "update"
    /\ current_notes' = update_sequence(current_notes, WindowNote(note)[1],
                                        WindowNote(note)[2], WindowNote(note)[3])
    /\ notesB' = update_sequence(notesB, WindowNote(noteB)[1],
                                 WindowNote(noteB)[2], WindowNote(noteB)[3])
    /\ absorbed' = Append(absorbed, WindowNote(note))
    /\ prev_start' = prev_start + note.step
    /\ count' = count + 1
    /\ trace' = trace \o <<Ev("append"), Ev("count")>>
    /\ pc' = "loop"
    /\ last_cc_values' = [k \in {} |-> 0]
    /\ UNCHANGED <<cfgVars, cause, note, noteB, seedRows, cleanVars, gpc,
                   gesture_running, todo, frames, position_buffer_x, position_buffer_y,
                   lastGesture, prevGesture, frameStart, callStart, samplesSeen, ccCalls,
                   midi_lock, portVars>>
    /\ UNCHANGED wsVars
    /\ UNCHANGED <<camera, harmVars, evVars>>

\* update_sequence, prev_start += step, count += 1
Update ==
    /\ pc = "update"
    /\ current_notes' = update_sequence(current_notes, WindowNote(note)[1],
                                        WindowNote(note)[2], WindowNote(note)[3])
    /\ notesB' = update_sequence(notesB, WindowNote(noteB)[1],
                                 WindowNote(noteB)[2], WindowNote(noteB)[3])
    /\ absorbed' = Append(absorbed, WindowNote(note))
    /\ prev_start' = prev_start + note.step
    /\ count' = count + 1
    /\ trace' = trace \o <<Ev("append"), Ev("count")>>
    /\ pc' = "loop"
    /\ UNCHANGED <<cfgVars, cause, note, noteB, seedRows, cleanVars, gpc,
                   gesture_running, ctlVars, midi_lock, portVars>>
    /\ UNCHANGED wsVars
    /\ UNCHANGED <<camera, harmVars, evVars>>

\* KeyboardInterrupt inside the try statement; a with statement it interrupts
\* releases the lock
Interrupt ==
    /\ pc \in LoopPcs
    /\ cause' = "interrupt"
    /\ pc' = "finally"
    /\ midi_lock' = IF midi_lock = "main" THEN "free" ELSE midi_lock
    /\ UNCHANGED <<cfgVars, loopVars, cleanVars, gpc, gesture_running, ctlVars,
                   portVars>>
    /\ UNCHANGED <<trace, wsVars>>
    /\ UNCHANGED <<camera, harmVars, evVars>>

\* finally: stop_gesture_control up to the join
StopGesture ==
    /\ pc = "finally"
    /\ IF gesture_running
       THEN /\ gesture_running' = FALSE
            /\ pc' = "join"
       ELSE /\ pc' = "all_off"
            /\ UNCHANGED gesture_running
    /\ UNCHANGED <<cfgVars, cause, loopVars, cleanVars, gpc, ctlVars, midi_lock,
                   portVars>>
    /\ UNCHANGED <<trace, wsVars>>
    /\ UNCHANGED <<camera, harmVars, evVars>>

\* gesture_thread.join(timeout=2.0) returns: the thread has ended or the
\* timeout has passed
Join ==
    /\ pc = "join"
    /\ pc' = "all_off"
    /\ UNCHANGED <<cfgVars, cause, loopVars, cleanVars, gpc, gesture_running, ctlVars,
                   midi_lock, portVars>>
    /\ UNCHANGED <<trace, wsVars>>
    /\ UNCHANGED <<camera, harmVars, evVars>>

\* one pass of the note-off loop of the cleanup; a send that raises leaves
\* the finally block
AllNotesOff ==
    /\ pc = "all_off"
    /\ \E ok \in BOOLEAN :
          IF ok
          THEN /\ PortNote("main", "note_off", offNote)
               /\ offNote' = offNote + 1
               /\ pc' = IF offNote + 1 >= AllNotesOffCount THEN "reset_cc" ELSE "all_off"
               /\ UNCHANGED failedSend
          ELSE /\ failedSend' = "note_off"
               /\ pc' = "raised"
               /\ UNCHANGED <<offNote, sounding, ccDev, lastWrite, lastNote>>
    /\ UNCHANGED <<cfgVars, cause, loopVars, ccIdx, gpc, gesture_running, ctlVars,
                   midi_lock, midi_open, ccSent, resetKeys, melodic, ccWrites>>
    /\ UNCHANGED <<trace, wsVars>>
    /\ UNCHANGED <<camera, harmVars, evVars>>

\* one pass of the control reset loop of the cleanup
ResetCC ==
    /\ pc = "reset_cc"
    /\ \E ok \in BOOLEAN :
          IF ok
          THEN /\ PortCC("main", ResetList[ccIdx + 1], DefaultChannel, 0)
               /\ resetKeys' = resetKeys \cup {<<ResetList[ccIdx + 1], DefaultChannel>>}
               /\ ccIdx' = ccIdx + 1
               /\ pc' = IF ccIdx + 1 >= Len(ResetList) THEN "close" ELSE "reset_cc"
               /\ UNCHANGED failedSend
          ELSE /\ failedSend' = "control_change"
               /\ pc' = "raised"
               /\ UNCHANGED <<ccIdx, sounding, ccDev, lastWrite, lastNote, resetKeys>>
    /\ UNCHANGED <<cfgVars, cause, loopVars, offNote, gpc, gesture_running, ctlVars,
                   midi_lock, midi_open, ccSent, melodic, ccWrites>>
    /\ UNCHANGED <<trace, wsVars>>
    /\ UNCHANGED <<camera, harmVars, evVars>>

\* midi_out.close() placed before the control reset loop
Close_BeforeResets ==
    /\ pc = "reset_cc"
    /\ ccIdx = 0
    /\ midi_open
    /\ midi_open' = FALSE
    /\ UNCHANGED <<cfgVars, pc, cause, loopVars, cleanVars, gpc, gesture_running, ctlVars,
                   midi_lock, sounding, ccDev, ccSent, resetKeys, lastWrite, lastNote,
                   melodic, ccWrites, trace, wsVars>>
    /\ UNCHANGED <<camera, harmVars, evVars>>

\* midi_out.close()
Close ==
    /\ pc = "close"
    /\ midi_open' = FALSE
    /\ pc' = "done"
    /\ UNCHANGED <<cfgVars, cause, loopVars, cleanVars, gpc, gesture_running, ctlVars,
                   midi_lock, sounding, ccDev, ccSent, resetKeys, lastWrite, lastNote,
                   melodic, ccWrites>>
    /\ UNCHANGED <<trace, wsVars>>
    /\ UNCHANGED <<camera, harmVars, evVars>>

(***************************************************************************)
(* The visualization thread: run_ws_server, ws_handler, broadcast_note.     *)
(***************************************************************************)
Viewers == 1..MaxViewers

\* json.dumps called for every viewer
Serialized_PerClient(event, clients) == [k \in 1..Cardinality(clients) |-> event]

\* broadcast_note: json.dumps is called once when there is a viewer, and not
\* at all when there is none
Serialized(event, clients) == IF clients = {} THEN <<>> ELSE <<event>>

\* the sends awaited one after the other, the first that fails ending the
\* broadcast
Dispatched_UntilFailure(clients, failing) ==
    {c \in clients : \A f \in failing : c <= f}

\* broadcast_note: asyncio.gather with return_exceptions=True starts the send
\* to every viewer of the set, whichever of them fail or never complete
Dispatched(clients, failing) == clients

\* [client.send(message) for client in clients]
RECURSIVE SendsTo(_, _)
SendsTo(event, clients) ==
    IF clients = {} THEN <<>>
    ELSE LET c == CHOOSE x \in clients : \A y \in clients : x <= y
         IN  <<[event |-> event, client |-> c]>> \o SendsTo(event, clients \ {c})

\* run_ws_server: the event loop is created and the server listens
WsServe ==
    /\ ws_loop = "starting"
    /\ ws_loop' = "running"
    /\ UNCHANGED <<cfgVars, pc, cause, loopVars, cleanVars, gpc, gesture_running, ctlVars,
                   midi_lock, portVars, trace, ws_clients, ws_queue, serialized, attempts,
                   broadcasts>>
    /\ UNCHANGED <<camera, harmVars, evVars>>

\* ws_handler: one of the given viewers connects
WsConnectTo(viewers) ==
    /\ ws_loop = "running"
    /\ \E v \in viewers \ ws_clients : ws_clients' = ws_clients \cup {v}
    /\ UNCHANGED <<cfgVars, pc, cause, loopVars, cleanVars, gpc, gesture_running, ctlVars,
                   midi_lock, portVars, trace, ws_loop, ws_queue, serialized, attempts,
                   broadcasts>>
    /\ UNCHANGED <<camera, harmVars, evVars>>

\* ws_handler: a viewer connects
WsConnect ==
    /\ ws_loop = "running"
    /\ \E v \in Viewers \ ws_clients : ws_clients' = ws_clients \cup {v}
    /\ UNCHANGED <<cfgVars, pc, cause, loopVars, cleanVars, gpc, gesture_running, ctlVars,
                   midi_lock, portVars, trace, ws_loop, ws_queue, serialized, attempts,
                   broadcasts>>
    /\ UNCHANGED <<camera, harmVars, evVars>>

\* ws_handler: wait_closed returns and the viewer is removed
WsDisconnect ==
    /\ \E v \in ws_clients : ws_clients' = ws_clients \ {v}
    /\ UNCHANGED <<cfgVars, pc, cause, loopVars, cleanVars, gpc, gesture_running, ctlVars,
                   midi_lock, portVars, trace, ws_loop, ws_queue, serialized, attempts,
                   broadcasts>>
    /\ UNCHANGED <<camera, harmVars, evVars>>

\* the event loop runs the oldest broadcast_note coroutine; failing is the set
\* of viewers whose send raises or never completes, raised those of them whose
\* send raises; gather returns the exceptions as results and broadcast_note
\* drops them, the set of viewers is left as it was
Broadcast ==
    /\ ws_queue # <<>>
    /\ \E failing \in SUBSET ws_clients : \E raised \in SUBSET failing :
          /\ attempts' = attempts \o SendsTo(Head(ws_queue), Dispatched(ws_clients, failing))
          /\ broadcasts' = Append(broadcasts, [event |-> Head(ws_queue),
                                               clients |-> ws_clients,
                                               failing |-> failing,
                                               raised |-> raised])
    /\ serialized' = serialized \o Serialized(Head(ws_queue), ws_clients)
    /\ ws_queue' = Tail(ws_queue)
    /\ UNCHANGED <<cfgVars, pc, cause, loopVars, cleanVars, gpc, gesture_running, ctlVars,
                   midi_lock, portVars, trace, ws_loop, ws_clients>>
    /\ UNCHANGED <<camera, harmVars, evVars>>

(***************************************************************************)
(* SimpleHarmonyGenerator (dual_model_polyphony.py).                        *)
(***************************************************************************)
Styles == {"classical", "jazz", "modern"}

\* interval_profiles[style]['intervals']; every weight is positive, so
\* random.choices can draw each of them
Intervals(st) ==
    CASE st = "classical" -> {0 - 7, 0 - 5, 0 - 4, 0 - 3, 3, 4, 5, 7}
      [] st = "jazz" -> {0 - 7, 0 - 5, 0 - 4, 0 - 3, 3, 4, 7, 10}
      [] st = "modern" -> {0 - 12, 0 - 7, 0 - 5, 0 - 2, 2, 5, 7, 12}

\* generate_harmony without the clamps to the MIDI range
generate_harmony_NoClamp(melody, drawn) ==
    LET first == melody + drawn
    IN  IF first = melody
        THEN melody + drawn + (IF drawn > 0 THEN 1 ELSE 0 - 1)
        ELSE first

\* generate_harmony once the interval is drawn: the clamp, then the adjacent
\* interval when the clamped pitch is the melody pitch
generate_harmony(melody, drawn) ==
    LET first == Max(0, Min(127, melody + drawn))
        alternative == drawn + (IF drawn > 0 THEN 1 ELSE 0 - 1)
    IN  IF first = melody
        THEN Max(0, Min(127, melody + alternative))
        ELSE first

\* no generate_harmony call made
NoHarmony ==
    /\ style = "classical"
    /\ melody_pitch = 0
    /\ interval = 0
    /\ harmony_pitch = 0
    /\ hpc = "idle"
    /\ poly_lock = "free"
    /\ poly_out = <<>>

\* one generate_harmony call, as predict_next_notes makes it in simple mode
GenerateHarmony ==
    /\ hpc = "idle"
    /\ \E drawn \in Intervals(style) :
          /\ interval' = drawn
          /\ harmony_pitch' = generate_harmony(melody_pitch, drawn)
    /\ hpc' = "returned"
    /\ UNCHANGED <<sessionVars, style, melody_pitch, poly_lock, poly_out>>

(***************************************************************************)
(* DualModelPolyphonySystem.play_notes, called with the two notes of        *)
(* predict_next_notes and the default velocity.                             *)
(***************************************************************************)
play_notes_velocity == 80

\* int(velocity * 0.8)
HarmonyVelocity(v) == (v * 8) \div 10

\* the two messages of one with statement, melody first
PolyMessages(kind) ==
    LET v == ClampMidi(play_notes_velocity)
    IN  << [type |-> kind, note |-> ClampMidi(melody_pitch),
            velocity |-> IF kind = "note_on" THEN v ELSE 0],
           [type |-> kind, note |-> ClampMidi(harmony_pitch),
            velocity |-> IF kind = "note_on" THEN HarmonyVelocity(v) ELSE 0] >>

\* play_notes: entering either with statement
PolyAcquire ==
    /\ hpc \in {"returned", "slept"}
    /\ poly_lock = "free"
    /\ poly_lock' = "held"
    /\ hpc' = IF hpc = "returned" THEN "on_send" ELSE "off_send"
    /\ UNCHANGED <<sessionVars, style, melody_pitch, interval, harmony_pitch, poly_out>>

\* play_notes: the two sends of a with statement and leaving it.  A send that
\* raises ends the call after the messages written before it.
PolySend ==
    /\ hpc \in {"on_send", "off_send"}
    /\ \E written \in 0..2 :
          /\ poly_out' = poly_out \o
                 SubSeq(PolyMessages(IF hpc = "on_send" THEN "note_on" ELSE "note_off"),
                        1, written)
          /\ hpc' = IF written < 2 THEN "raised"
                    ELSE IF hpc = "on_send" THEN "sleep" ELSE "done"
    /\ poly_lock' = "free"
    /\ UNCHANGED <<sessionVars, style, melody_pitch, interval, harmony_pitch>>

\* play_notes: time.sleep(max_duration) returns
PolySleep ==
    /\ hpc = "sleep"
    /\ hpc' = "slept"
    /\ UNCHANGED <<sessionVars, style, melody_pitch, interval, harmony_pitch, poly_lock,
                   poly_out>>

(***************************************************************************)
(* Specifications.                                                          *)
(***************************************************************************)
EmptyDict == [k \in {} |-> 0]

NoNoteMessage == [pitch |-> 0, velocity |-> 0]

\* generate called with the default velocity and duration limits
DefaultArgs ==
    /\ arg_velocity = velocity
    /\ arg_min_duration = min_duration
    /\ arg_max_duration = max_duration
    /\ arg_temperature = temperature

\* the system as constructed by main, before load_seed_sequence
Constructed ==
    /\ pc = "seed"
    /\ cause = "none"
    /\ count = 0
    /\ note = NoNote
    /\ noteB = NoNote
    /\ current_notes = <<>>
    /\ notesB = <<>>
    /\ seedRows = <<>>
    /\ absorbed = <<>>
    /\ prev_start = 0
    /\ offNote = 0
    /\ ccIdx = 0
    /\ failedSend = "none"
    /\ gpc = "idle"
    /\ gesture_running = FALSE
    /\ todo = <<>>
    /\ frames = 0
    /\ position_buffer_x = <<>>
    /\ position_buffer_y = <<>>
    /\ last_cc_values = EmptyDict
    /\ lastGesture = "none"
    /\ prevGesture = "none"
    /\ frameStart = 0
    /\ callStart = 0
    /\ samplesSeen = <<>>
    /\ camera = "none"
    /\ note_data = <<>>
    /\ played = <<>>
    /\ ccCalls = <<>>
    /\ midi_lock = "free"
    /\ midi_open = TRUE
    /\ sounding = {}
    /\ ccDev = EmptyDict
    /\ ccSent = {}
    /\ resetKeys = {}
    /\ lastWrite = NoWrite
    /\ lastNote = NoNoteMessage
    /\ melodic = <<>>
    /\ ccWrites = <<>>
    /\ trace = <<>>
    /\ ws_loop = "none"
    /\ ws_clients = {}
    /\ ws_queue = <<>>
    /\ serialized = <<>>
    /\ attempts = <<>>
    /\ broadcasts = <<>>

\* Spec: a session with or without gesture control, both threads running
Init ==
    /\ enable_gesture \in BOOLEAN
    /\ num_notes \in {<<>>} \cup {<<n>> : n \in 0..MaxSessionNotes}
    /\ speed = 1
    /\ speedB = 2
    /\ DefaultArgs
    /\ enable_websocket = FALSE
    /\ Constructed
    /\ NoHarmony

Next ==
    \/ LoadSeed(SessionSeedFiles)
    \/ Start
    \/ Settle
    \/ StartupInterrupt
    \/ Predict(SessionOutputs, MaxSessionNotes)
    \/ Visualize
    \/ PredictFails
    \/ LoopExit
    \/ NoteAcquire
    \/ NoteOnSend
    \/ Sleep
    \/ NoteOffSend
    \/ Update
    \/ Interrupt
    \/ StopGesture
    \/ Join
    \/ AllNotesOff
    \/ ResetCC
    \/ Close
    \/ GestureInit
    \/ GestureFrame(SessionSamples, MaxFrames)
    \/ GestureExit
    \/ GestureAcquire
    \/ GestureSend

Spec == Init /\ [][Next]_vars

\* SpecMelody: a session without gesture control, over the seed files, the
\* model outputs and the speed multipliers
InitMelody ==
    /\ enable_gesture = FALSE
    /\ num_notes \in {<<>>} \cup {<<n>> : n \in 0..MaxNotes}
    /\ speed \in Speeds
    /\ speedB \in Speeds \ {speed}
    /\ DefaultArgs
    /\ enable_websocket = FALSE
    /\ Constructed
    /\ NoHarmony

NextMelody ==
    \/ LoadSeed(MelodySeedFiles)
    \/ Start
    \/ StartupInterrupt
    \/ Predict(MelodyOutputs, MaxNotes)
    \/ Visualize
    \/ PredictFails
    \/ LoopExit
    \/ NoteAcquire
    \/ NoteOnSend
    \/ Sleep
    \/ NoteOffSend
    \/ Update
    \/ Interrupt
    \/ StopGesture
    \/ AllNotesOff
    \/ ResetCC
    \/ Close

SpecMelody == InitMelody /\ [][NextMelody]_vars

\* SpecArgs: a session without gesture control, over the velocity and the
\* duration limits passed to generate
InitArgs ==
    /\ enable_gesture = FALSE
    /\ num_notes \in {<<n>> : n \in 0..MaxSessionNotes}
    /\ speed = 1
    /\ speedB = 2
    /\ arg_velocity \in ArgVelocities
    /\ \E d \in ArgDurations : arg_min_duration = d[1] /\ arg_max_duration = d[2]
    /\ arg_temperature \in ArgTemperatures
    /\ enable_websocket = FALSE
    /\ Constructed
    /\ NoHarmony

NextArgs ==
    \/ LoadSeed(SessionSeedFiles)
    \/ Start
    \/ StartupInterrupt
    \/ Predict(ArgOutputs, MaxSessionNotes)
    \/ Visualize
    \/ PredictFails
    \/ LoopExit
    \/ NoteAcquire
    \/ NoteOnSend
    \/ Sleep
    \/ NoteOffSend
    \/ Update
    \/ Interrupt
    \/ StopGesture
    \/ AllNotesOff
    \/ ResetCC
    \/ Close

SpecArgs == InitArgs /\ [][NextArgs]_vars

\* SpecViz: a session without gesture control, with the visualization server
\* and viewers that connect and disconnect, up to the note-off loop of the
\* cleanup
InitViz ==
    /\ enable_gesture = FALSE
    /\ num_notes \in {<<n>> : n \in 0..MaxVizNotes}
    /\ speed = 1
    /\ speedB = 2
    /\ DefaultArgs
    /\ enable_websocket = TRUE
    /\ Constructed
    /\ NoHarmony

NextViz ==
    \/ LoadSeed(SessionSeedFiles)
    \/ Start
    \/ StartupInterrupt
    \/ Predict(SessionOutputs, MaxVizNotes)
    \/ Visualize
    \/ PredictFails
    \/ LoopExit
    \/ NoteAcquire
    \/ NoteOnSend
    \/ Sleep
    \/ NoteOffSend
    \/ Update
    \/ Interrupt
    \/ StopGesture
    \/ WsServe
    \/ WsConnect
    \/ WsDisconnect
    \/ Broadcast

SpecViz == InitViz /\ [][NextViz]_vars

\* the gesture thread in its loop while the main thread sleeps in
\* start_gesture_control: the state after LoadSeed, Start and GestureInit
InitController ==
    /\ enable_gesture = TRUE
    /\ num_notes = <<>>
    /\ speed = 1
    /\ speedB = 2
    /\ DefaultArgs
    /\ enable_websocket = FALSE
    /\ pc = "settle"
    /\ cause = "none"
    /\ count = 0
    /\ note = NoNote
    /\ noteB = NoNote
    /\ current_notes = NormalizeAll(DefaultSeed)
    /\ notesB = NormalizeAll(DefaultSeed)
    /\ seedRows = DefaultSeed
    /\ absorbed = <<>>
    /\ prev_start = 0
    /\ offNote = 0
    /\ ccIdx = 0
    /\ failedSend = "none"
    /\ gpc = "loop"
    /\ gesture_running = TRUE
    /\ todo = <<>>
    /\ frames = 0
    /\ position_buffer_x = <<>>
    /\ position_buffer_y = <<>>
    /\ last_cc_values = EmptyDict
    /\ lastGesture = "none"
    /\ prevGesture = "none"
    /\ frameStart = 0
    /\ callStart = 0
    /\ samplesSeen = <<>>
    /\ camera = "open"
    /\ note_data = <<>>
    /\ played = <<>>
    /\ NoHarmony
    /\ ccCalls = <<>>
    /\ midi_lock = "free"
    /\ midi_open = TRUE
    /\ sounding = {}
    /\ ccDev = EmptyDict
    /\ ccSent = {}
    /\ resetKeys = {}
    /\ lastWrite = NoWrite
    /\ lastNote = NoNoteMessage
    /\ melodic = <<>>
    /\ ccWrites = <<>>
    /\ trace = << [ev |-> "launch", i |-> 0, n |-> 0] >>
    /\ ws_loop = "none"
    /\ ws_clients = {}
    /\ ws_queue = <<>>
    /\ serialized = <<>>
    /\ attempts = <<>>
    /\ broadcasts = <<>>

\* SpecCC: send_cc calls made on the controller alone
NextCC ==
    \/ DirectCall(DirectCCs, DirectValues, MaxDirectCalls)
    \/ GestureAcquire
    \/ GestureSend

SpecCC == InitController /\ [][NextCC]_vars

\* SpecHand: process_hand_data calls made on the controller alone
NextHand ==
    \/ GestureFrame(HandSamples, MaxHandFrames)
    \/ GestureAcquire
    \/ GestureSend

SpecHand == InitController /\ [][NextHand]_vars

\* SpecHarmony: one generate_harmony call of a generator of any style on any
\* melody pitch of the MIDI range
InitHarmony ==
    /\ enable_gesture = FALSE
    /\ num_notes = <<0>>
    /\ speed = 1
    /\ speedB = 2
    /\ DefaultArgs
    /\ enable_websocket = FALSE
    /\ Constructed
    /\ style \in Styles
    /\ melody_pitch \in 0..(NumPitches - 1)
    /\ interval = 0
    /\ harmony_pitch = 0
    /\ hpc = "idle"
    /\ poly_lock = "free"
    /\ poly_out = <<>>

NextHarmony ==
    \/ GenerateHarmony
    \/ PolyAcquire
    \/ PolySend
    \/ PolySleep

SpecHarmony == InitHarmony /\ [][NextHarmony]_vars

\* the one viewer of a session whose events are followed
EventViewers == {1}

\* SpecEvents: a session without gesture control, with the visualization
\* server and a viewer, over both speed multipliers, up to the note-off loop
\* of the cleanup
InitEvents ==
    /\ enable_gesture = FALSE
    /\ num_notes \in {<<n>> : n \in 0..MaxEventNotes}
    /\ speed \in Speeds
    /\ speedB \in Speeds \ {speed}
    /\ DefaultArgs
    /\ enable_websocket = TRUE
    /\ Constructed
    /\ NoHarmony

NextEvents ==
    \/ LoadSeed(SessionSeedFiles)
    \/ Start
    \/ StartupInterrupt
    \/ Predict(MelodyOutputs, MaxEventNotes)
    \/ Visualize
    \/ PredictFails
    \/ LoopExit
    \/ NoteAcquire
    \/ NoteOnSend
    \/ Sleep
    \/ NoteOffSend
    \/ Update
    \/ Interrupt
    \/ StopGesture
    \/ WsServe
    \/ WsConnectTo(EventViewers)
    \/ WsDisconnect
    \/ Broadcast

SpecEvents == InitEvents /\ [][NextEvents]_vars

\* SpecSmooth: a longer run of process_hand_data calls on the controller
\* alone, enough of them to fill the smoothing buffers
NextSmooth ==
    \/ GestureFrame(SmoothSamples, MaxSmoothFrames)
    \/ GestureAcquire
    \/ GestureSend

SpecSmooth == InitController /\ [][NextSmooth]_vars

(***************************************************************************)
(* Properties.                                                              *)
(***************************************************************************)
\* pitches the note-off loop of the cleanup has sent: pass i sends pitch i
CleanupNotesSent == 0..(offNote - 1)

\* cleanup sends attempted, the one that raised included
NotesAttempted == offNote + (IF failedSend = "note_off" THEN 1 ELSE 0)
ResetsAttempted == ccIdx + (IF failedSend = "control_change" THEN 1 ELSE 0)

C3_AttemptEverything ==
    pc = "raised" =>
        /\ NotesAttempted = 128
        /\ ResetsAttempted = Len(ResetList)
        /\ ~midi_open

\* C4: every message the port receives is written by a thread that holds
\* the device lock.
C4_EveryWriteUnderLock ==
    lastWrite.by # "none" => lastWrite.holder = lastWrite.by

\* C5: in the order of the messages play_note writes, nothing for pitch p
\* lies between the note-on of p and the note-off of p of the same call.
C5_NoInterleavedPitch ==
    \A i \in DOMAIN melodic : \A j \in DOMAIN melodic :
        ( /\ i < j
          /\ melodic[i].kind = "note_on"
          /\ melodic[j].kind = "note_off"
          /\ melodic[i].call = melodic[j].call
          /\ melodic[i].pitch = melodic[j].pitch )
        => \A k \in (i + 1)..(j - 1) : melodic[k].pitch # melodic[i].pitch

C5_Witness ==
    /\ Len(melodic) = 4
    /\ \A i \in 1..4 : melodic[i].pitch = 60
    /\ melodic[3].call = 1

\* the rule of the dedup: a call is written when it is the first for its key
\* or differs by at least 2 from the last value written for the key
RECURSIVE DedupReference(_, _)
DedupReference(base, calls) ==
    IF calls = <<>> THEN <<>>
    ELSE LET c == Head(calls)
             key == <<c.cc, 0>>
             first == key \notin DOMAIN base
         IN  IF first
             THEN <<c>> \o DedupReference(DictSet(base, key, c.value), Tail(calls))
             ELSE IF Abs(c.value - base[key]) >= 2
                  THEN <<c>> \o DedupReference(DictSet(base, key, c.value), Tail(calls))
                  ELSE DedupReference(base, Tail(calls))

\* C6: once the send_cc calls made have returned, the control changes the
\* port has received are exactly the calls that were the first for their key
\* or differed by at least 2 from the last value written for the key, and
\* the stored baseline is the last value written.
C6_DedupRule ==
    gpc = "loop" =>
        /\ ccWrites = DedupReference(EmptyDict, ccCalls)
        /\ last_cc_values = ccDev

C6_Witness ==
    /\ gpc = "loop"
    /\ ccCalls = << [cc |-> CC_FILTER_CUTOFF, value |-> 50],
                    [cc |-> CC_FILTER_CUTOFF, value |-> 50],
                    [cc |-> CC_FILTER_CUTOFF, value |-> 51],
                    [cc |-> CC_FILTER_CUTOFF, value |-> 53] >>
    /\ ccWrites = << [cc |-> CC_FILTER_CUTOFF, value |-> 50],
                     [cc |-> CC_FILTER_CUTOFF, value |-> 53] >>

\* C7: a hand sample with the same gesture label as the sample before it
\* writes no chorus or modulation message: the overrides of a label that is
\* held are written once.
C7_HeldLabelSentOnce ==
    (frames >= 2 /\ prevGesture = lastGesture) =>
        \A i \in (frameStart + 1)..Len(ccWrites) :
            ccWrites[i].cc \notin {CC_CHORUS, CC_MODULATION}

C7_Witness ==
    /\ frames = 2
    /\ gpc = "loop"
    /\ prevGesture = "Closed Fist"
    /\ lastGesture = "Closed Fist"
    /\ CcKey(CC_CHORUS) \in ccSent
    /\ CcKey(CC_MODULATION) \in ccSent

\* the last n elements of a sequence
LastN(n, seq) == IF Len(seq) <= n THEN seq ELSE SubSeq(seq, Len(seq) - n + 1, Len(seq))

\* C8: once seeded, the context window holds exactly sequenceLength notes.
C8_WindowLength ==
    pc # "seed" => Len(current_notes) = SEQUENCE_LENGTH

\* C9: once seeded, the context window is the last sequenceLength elements
\* of the normalized seed followed by the normalized notes absorbed.
C9_WindowIsFifo ==
    pc # "seed" =>
        current_notes = LastN(SEQUENCE_LENGTH, NormalizeAll(seedRows \o absorbed))

\* C10: two runs fed the same model outputs under different speed
\* multipliers hold the same context window.
C10_SpeedDoesNotLeak ==
    speed # speedB => current_notes = notesB

C10_Witness ==
    /\ speed # speedB
    /\ count >= 2
    /\ note.step_adjusted # noteB.step_adjusted
    /\ note.duration_adjusted # noteB.duration_adjusted

\* the durations of the notes generated so far: the note of the iteration
\* under way and the notes appended to the context window
GeneratedDurations ==
    (IF pc \in LoopPcs \ {"loop"} THEN {note.duration} ELSE {})
        \cup {absorbed[i][3] : i \in DOMAIN absorbed}

\* C11 (amended): when the configured minimum is at most the configured
\* maximum, the duration of every generated note lies between them, whatever
\* the raw duration; when the minimum exceeds the maximum, the duration is
\* the minimum.
C11_DurationWithinOrderedLimits ==
    \A d \in GeneratedDurations :
        IF arg_min_duration <= arg_max_duration
        THEN arg_min_duration <= d /\ d <= arg_max_duration
        ELSE d = arg_min_duration

C11_Witness ==
    /\ arg_min_duration = 1
    /\ arg_max_duration = 20
    /\ absorbed = << <<127, 0, 20>> >>

\* C11: the duration of every generated note, which is the duration appended
\* to the context window, lies between the configured minimum and maximum,
\* for every configured minimum and maximum.
C11_DurationWithinLimits ==
    /\ pc \in LoopPcs \ {"loop"} =>
          /\ arg_min_duration <= note.duration
          /\ note.duration <= arg_max_duration
    /\ \A i \in DOMAIN absorbed :
          /\ arg_min_duration <= absorbed[i][3]
          /\ absorbed[i][3] <= arg_max_duration

\* C12: every note message the port receives has its pitch and its velocity
\* in 0..127, and so has the pitch of every generated note.
C12_MidiRange ==
    /\ lastNote.pitch \in 0..127
    /\ lastNote.velocity \in 0..127
    /\ \A i \in DOMAIN melodic : melodic[i].pitch \in 0..127
    /\ note.pitch \in 0..127
    /\ \A i \in DOMAIN absorbed : absorbed[i][1] \in 0..127

C12_Witness ==
    /\ pc = "sleep"
    /\ arg_velocity = 200
    /\ note.pitch = 127
    /\ lastNote = [pitch |-> 127, velocity |-> 127]

\* the lifecycle state the main thread is in: 0 IDLE (constructed and
\* seeded), 1 RUNNING (services started, generation loop), 2 STOPPING (the
\* finally block), 3 STOPPED (device closed).  A session that generate has
\* left by an exception stays in the state it was in.
LifecycleRank(p) ==
    IF p \in {"seed", "start"} THEN 0
    ELSE IF p \in LoopPcs \cup {"settle", "aborted"} THEN 1
    ELSE IF p = "done" THEN 3
    ELSE 2

\* C13: the lifecycle only moves forward, one state at a time; once the
\* cleanup has started play_note writes nothing more; once the port is
\* closed it stays closed and receives nothing more.
C13_LifecycleForward ==
    [][ /\ LifecycleRank(pc) <= LifecycleRank(pc')
        /\ LifecycleRank(pc') <= LifecycleRank(pc) + 1
        /\ LifecycleRank(pc) >= 2 => melodic' = melodic
        /\ ~midi_open =>
              /\ ~midi_open'
              /\ pc' = pc
              /\ UNCHANGED <<sounding, ccDev, resetKeys, lastWrite, lastNote, melodic,
                             ccWrites>> ]_vars

C13_Witness ==
    /\ pc = "done"
    /\ ~midi_open
    /\ Len(melodic) = 2
    /\ gpc = "cc_send"

\* C14: a session stopped by KeyboardInterrupt in the generation loop ends
\* with the gesture thread told to stop, all cleanup messages sent and the
\* port closed.
C14_StopSignalReachesStopped ==
    (cause = "interrupt" /\ pc \in {"done", "raised"}) =>
        /\ pc = "done"
        /\ ~gesture_running
        /\ offNote = AllNotesOffCount
        /\ ccIdx = Len(ResetList)
        /\ ~midi_open

\* C15: when the cleanup starts after a KeyboardInterrupt, play_note has
\* written the note-off of the note that was in flight: its last message
\* is not a note-on.
C15_NoteInFlightFinished ==
    (cause = "interrupt" /\ LifecycleRank(pc) >= 2 /\ melodic # <<>>) =>
        melodic[Len(melodic)].kind = "note_off"

\* C16: when predict_next_note raises in iteration i, nothing else happens
\* in iteration i or after it (no visualization event, note-on, append or
\* counter increment), and the cleanup runs to its end: gesture thread
\* stopped, 128 note-offs, control resets, port closed.
C16_PredictorFailureIsFatal ==
    \A k \in DOMAIN trace :
        trace[k].ev = "raise" =>
            /\ k = Len(trace)
            /\ count = trace[k].i
            /\ Len(absorbed) = trace[k].n
            /\ \A m \in DOMAIN melodic : melodic[m].call < trace[k].i
            /\ pc \in {"finally", "join", "all_off", "reset_cc", "close", "done"}
            /\ pc = "done" =>
                  /\ ~gesture_running
                  /\ offNote = AllNotesOffCount
                  /\ ccIdx = Len(ResetList)
                  /\ ~midi_open

\* C17: with gesture control enabled, every prediction and every note-on
\* comes after the gesture thread was launched and the settling sleep
\* returned.
C17_FirstNoteAfterSettling ==
    enable_gesture =>
        /\ \A k \in DOMAIN trace :
              trace[k].ev \in {"predict", "note_on"} =>
                  /\ k > 2
                  /\ trace[1].ev = "launch"
                  /\ trace[2].ev = "settled"
        /\ melodic # <<>> => (Len(trace) > 2 /\ gpc # "idle")

C17_Witness ==
    /\ enable_gesture
    /\ pc = "sleep"
    /\ Len(melodic) = 1
    /\ gpc = "cc_send"

\* the events of the generation loop
IsLoopEvent(e) == e.ev \notin {"launch", "settled"}
LoopEvents == SelectSeq(trace, IsLoopEvent)
IterationOrder == <<"predict", "viz", "note_on", "note_off", "append", "count">>

\* C18: the events of the generation loop come in rounds of predict,
\* visualization, note-on, note-off, append, counter increment, each round
\* belonging to one iteration; every event of iteration i, its prediction
\* included, happens with exactly the notes of iterations 0..i-1 absorbed.
C18_IterationOrder ==
    \A k \in DOMAIN LoopEvents :
        LET e == LoopEvents[k]
            slot == ((k - 1) % 6) + 1
            iteration == (k - 1) \div 6
        IN  /\ \/ e.ev = IterationOrder[slot]
               \/ e.ev = "raise" /\ slot = 1 /\ k = Len(LoopEvents)
            /\ e.i = iteration
            /\ e.n = iteration

C18_Witness ==
    /\ Len(trace) = 12
    /\ trace[12] = [ev |-> "count", i |-> 1, n |-> 1]
    /\ trace[7] = [ev |-> "predict", i |-> 1, n |-> 1]

\* how many elements of a sequence equal x
Occurrences(seq, x) == Cardinality({j \in DOMAIN seq : seq[j] = x})

\* C19: a broadcast_note run with no viewer serializes and sends nothing;
\* with viewers it serializes the event once and starts exactly one send to
\* each viewer of the set; nothing else is serialized or sent.
C19_BroadcastOncePerViewer ==
    /\ \A k \in DOMAIN broadcasts :
          LET b == broadcasts[k]
          IN  /\ Occurrences(serialized, b.event) = IF b.clients = {} THEN 0 ELSE 1
              /\ \A c \in Viewers :
                    Occurrences(attempts, [event |-> b.event, client |-> c])
                        = IF c \in b.clients THEN 1 ELSE 0
    /\ \A j \in DOMAIN attempts :
          \E k \in DOMAIN broadcasts : broadcasts[k].event = attempts[j].event
    /\ \A j \in DOMAIN serialized :
          \E k \in DOMAIN broadcasts : broadcasts[k].event = serialized[j]

C19_Witness ==
    /\ Len(broadcasts) = 1
    /\ broadcasts[1].clients = {1, 2}
    /\ serialized = <<0>>
    /\ Len(attempts) = 2

\* C20: when the send to some viewers fails or never completes, the send to
\* every other viewer of the set is still started; the main thread never
\* stays in send_to_visualization once the event is handed to the loop.
C20_ViewerFailureIsolated ==
    /\ \A k \in DOMAIN broadcasts :
          LET b == broadcasts[k]
          IN  \A c \in b.clients \ b.failing :
                  Occurrences(attempts, [event |-> b.event, client |-> c]) = 1
    /\ pc = "viz" =>
          /\ \A j \in DOMAIN ws_queue : ws_queue[j] # count
          /\ \A k \in DOMAIN broadcasts : broadcasts[k].event # count

C20_Witness ==
    /\ Len(broadcasts) = 1
    /\ broadcasts[1].clients = {1, 2}
    /\ broadcasts[1].failing = {1}
    /\ Occurrences(attempts, [event |-> 0, client |-> 2]) = 1
    /\ cause = "limit"
    /\ pc = "all_off"

\* C21: a viewer is in the set from its connection until it disconnects or a
\* send to it raises, and is removed at that point: a broadcast in which the
\* send to a viewer raises leaves that viewer out of the set, and every send
\* a broadcast starts goes to a viewer that is in the set.
C21_ErroredViewerRemoved ==
    [][broadcasts' # broadcasts =>
          LET b == broadcasts'[Len(broadcasts')]
          IN  /\ b.raised \cap ws_clients' = {}
              /\ b.clients \subseteq ws_clients]_vars

\* C22: a seed whose length differs from sequenceLength is rejected: it is
\* never the window in use and no note is generated from it; the seed a
\* session runs on has exactly sequenceLength notes.
C22_WrongLengthSeedRejected ==
    Len(seedRows) # SEQUENCE_LENGTH =>
        /\ current_notes = <<>>
        /\ pc \in {"seed", "raised"}
        /\ count = 0

\* C23: a session given a temperature of 0 or below is refused at startup:
\* it samples no note, and produces no note-on, no control write and no
\* visualization event.
C23_NonPositiveTemperatureRejected ==
    arg_temperature <= 0 =>
        /\ \A j \in DOMAIN trace : trace[j].ev \notin {"predict", "viz", "note_on"}
        /\ note = NoNote
        /\ melodic = <<>>
        /\ ccWrites = <<>>
        /\ ws_queue = <<>>

\* C24: a control-message send that fails is skipped: the gesture thread is
\* never ended by it and goes on to the following hand samples.
C24_ControlSendFailureSkipped ==
    gpc # "died"

\* the override calls the claim lists for a label, as <<control, value>> pairs
OverrideTable(label) ==
    CASE label = "Open Palm" -> << <<93, 127>> >>
      [] label = "Closed Fist" -> << <<93, 0>>, <<1, 0>> >>
      [] label = "Rock On" -> << <<1, 127>> >>
      [] label = "Peace Sign" -> << <<1, 64>> >>
      [] OTHER -> << >>

\* C25: the send_cc calls one hand sample makes after its three continuous
\* calls are exactly the overrides of its label: Open Palm CC93=127; Closed
\* Fist CC93=0 then CC1=0; Rock On CC1=127; Peace Sign CC1=64; any other label
\* none, and then the sample writes neither CC93 nor CC1 to the device.
C25_OverrideTable ==
    /\ (frames >= 1 /\ gpc = "loop") =>
          LET made == SubSeq(ccCalls, callStart + 4, Len(ccCalls))
          IN  /\ Len(ccCalls) >= callStart + 3
              /\ [j \in 1..Len(made) |-> <<made[j].cc, made[j].value>>]
                    = OverrideTable(lastGesture)
    /\ OverrideTable(lastGesture) = << >> =>
          \A j \in (frameStart + 1)..Len(ccWrites) : ccWrites[j].cc \notin {93, 1}

C25_Witness ==
    /\ frames = 2
    /\ gpc = "loop"
    /\ prevGesture = "Pointing"
    /\ lastGesture = "Closed Fist"
    /\ Len(ccCalls) = 8
    /\ ccCalls[7] = [cc |-> 93, value |-> 0]
    /\ ccCalls[8] = [cc |-> 1, value |-> 0]

\* every sample of a buffer equals v
Settled(buffer, v) == \A j \in DOMAIN buffer : buffer[j] = v

\* C26: every continuous mapping gives an integer in 0..127 whatever the
\* landmarks are; a position.x settled at 0.0 gives CC74 = 0 and at 1.0 gives
\* CC74 = 127; a position.y settled at 0.0 gives CC91 = 127 and at 1.0 gives
\* CC91 = 0; a pinch distance of 0 gives CC71 = 0 and one of 0.3 or more gives
\* CC71 = 127; every control change written to the device is in 0..127.
C26_ContinuousMappings ==
    /\ \A j \in DOMAIN ccCalls : ccCalls[j].value \in 0..127
    /\ \A j \in DOMAIN ccWrites : ccWrites[j].value \in 0..127
    /\ \A k \in DOMAIN ccDev : ccDev[k] \in 0..127
    /\ (frames >= 1 /\ Len(ccCalls) >= callStart + 1) =>
          LET c == ccCalls[callStart + 1]
          IN  /\ c.cc = 74
              /\ Settled(position_buffer_x, 0) => c.value = 0
              /\ Settled(position_buffer_x, Grid) => c.value = 127
    /\ (frames >= 1 /\ Len(ccCalls) >= callStart + 2) =>
          LET c == ccCalls[callStart + 2]
          IN  /\ c.cc = 91
              /\ Settled(position_buffer_y, 0) => c.value = 127
              /\ Settled(position_buffer_y, Grid) => c.value = 0
    /\ (frames >= 1 /\ Len(ccCalls) >= callStart + 3) =>
          LET c == ccCalls[callStart + 3]
              s == samplesSeen[Len(samplesSeen)]
              dx == s.tx - s.ix
              dy == s.ty - s.iy
          IN  /\ c.cc = 71
              /\ (dx = 0 /\ dy = 0) => c.value = 0
              /\ 100 * (dx * dx + dy * dy) >= 9 * Grid * Grid => c.value = 127

C26_Witness ==
    /\ frames = MaxSmoothFrames
    /\ samplesSeen[1].ix < 0
    /\ Len(position_buffer_x) = 5
    /\ Settled(position_buffer_x, Grid)
    /\ Settled(position_buffer_y, Grid)
    /\ Len(ccCalls) >= callStart + 3
    /\ ccCalls[callStart + 1] = [cc |-> 74, value |-> 127]
    /\ ccCalls[callStart + 2] = [cc |-> 91, value |-> 0]
    /\ ccCalls[callStart + 3].cc = 71
    /\ \E j \in DOMAIN ccWrites : ccWrites[j] = [cc |-> 74, value |-> 0]

\* the thumb-to-index distances of samples whose pinch is horizontal, in 1/Grid
PinchDistances(samples) == [j \in DOMAIN samples |-> Abs(samples[j].tx - samples[j].ix)]

\* C27: position-x, position-y and the pinch distance each have their own
\* moving average over the 5 most recent samples at most: each buffer is the
\* last 5 values of its axis, never longer, and the value sent for the pinch
\* distance is mapped from the mean of its recent samples.
C27_EachAxisSmoothed ==
    /\ Len(position_buffer_x) <= 5
    /\ Len(position_buffer_y) <= 5
    /\ position_buffer_x = LastN(5, [j \in DOMAIN samplesSeen |-> samplesSeen[j].ix])
    /\ position_buffer_y = LastN(5, [j \in DOMAIN samplesSeen |-> samplesSeen[j].iy])
    /\ (/\ frames >= 1
        /\ Len(ccCalls) >= callStart + 3
        /\ \A j \in DOMAIN samplesSeen : samplesSeen[j].ty = samplesSeen[j].iy) =>
          LET recent == LastN(5, PinchDistances(samplesSeen))
          IN  ccCalls[callStart + 3].value
                = NormalizeToMidi(10 * SumSeq(recent), 3 * Grid * Len(recent))

\* the part of C27 the two position axes satisfy: each buffer is the last 5
\* values of its axis and the value sent is mapped from the buffer's mean
PositionAxesSmoothed ==
    /\ position_buffer_x = LastN(5, [j \in DOMAIN samplesSeen |-> samplesSeen[j].ix])
    /\ position_buffer_y = LastN(5, [j \in DOMAIN samplesSeen |-> samplesSeen[j].iy])
    /\ (frames >= 1 /\ Len(ccCalls) >= callStart + 1) =>
          ccCalls[callStart + 1].value
            = NormalizeToMidi(SumSeq(position_buffer_x), Grid * Len(position_buffer_x))

\* C28: once stop_gesture_control has cleared the running flag the gesture
\* thread begins no further loop iteration, and when the thread has ended the
\* camera and the tracker it opened are released.
C28_StopReleasesCamera ==
    [][/\ ~gesture_running => frames' = frames
       /\ (~gesture_running' /\ gpc' \in {"exited", "died"}) => camera' # "open"]_vars

\* the parts of C28 that hold: no iteration begins once the flag is cleared,
\* and the main thread leaves join whatever the gesture thread does
StopIsCooperative ==
    [][/\ ~gesture_running => frames' = frames
       /\ (pc = "join" /\ pc' # "join") => pc' = "all_off"]_vars

\* C29: generate_harmony returns a pitch in 0..127 for every melody pitch in
\* 0..127, every style and every interval of the style.
C29_HarmonyInMidiRange ==
    hpc = "returned" => harmony_pitch \in 0..127

C29_Witness ==
    /\ hpc = "returned"
    /\ style = "modern"
    /\ melody_pitch = 120
    /\ interval = 12
    /\ harmony_pitch = 127

\* C30: generate_harmony never returns the melody pitch itself, for every
\* melody pitch in 0..127, every style and every interval of the style.
C30_HarmonyAvoidsUnison ==
    hpc = "returned" => harmony_pitch # melody_pitch

\* how many messages of a kind play_note has written
MelodicCount(kind) == Cardinality({j \in DOMAIN melodic : melodic[j].kind = kind})

\* C31: with num_notes = N the loop never plays more than N notes; when it
\* ends on the count limit (no stop signal, no failure) it has played exactly
\* N notes (N note-ons, N note-offs, N window appends, count = N) and the
\* cleanup runs: unless a cleanup send fails it ends with every note-off and
\* reset sent and the port closed.  With N = 0 no note-on is sent.
C31_CountLimit ==
    num_notes # <<>> =>
        LET N == num_notes[1]
        IN  /\ count <= N
            /\ MelodicCount("note_on") <= N
            /\ cause = "limit" =>
                  /\ count = N
                  /\ Len(absorbed) = N
                  /\ MelodicCount("note_on") = N
                  /\ MelodicCount("note_off") = N
                  /\ pc \in {"finally", "join", "all_off", "reset_cc", "close", "done",
                              "raised"}
                  /\ pc = "raised" => failedSend # "none"
                  /\ pc = "done" =>
                        offNote = 128 /\ ccIdx = Len(ResetList) /\ ~midi_open

C31_Witness ==
    /\ num_notes = <<2>>
    /\ cause = "limit"
    /\ pc = "done"
    /\ count = 2
    /\ Len(melodic) = 4
    /\ Len(absorbed) = 2

\* C32: each generated note gives at most one visualization event; the index
\* of an event is the number of notes completed before it, so the events
\* handed to the event loop have strictly increasing indices; the step and
\* the duration of an event are the speed-scaled values, the duration being
\* the one passed to play_note for the same note.
C32_OneEventPerNote ==
    /\ Len(note_data) <= count + 1
    /\ Len(note_data) = count + (IF pc \in LoopPcs \ {"loop", "viz"} THEN 1 ELSE 0)
         \/ pc \notin LoopPcs
    /\ \A j \in DOMAIN note_data : note_data[j].index = j - 1
    /\ \A i \in DOMAIN ws_queue : \A j \in DOMAIN ws_queue :
          i < j => ws_queue[i] < ws_queue[j]
    /\ \A i \in DOMAIN broadcasts : \A j \in DOMAIN broadcasts :
          i < j => broadcasts[i].event < broadcasts[j].event
    /\ \A i \in DOMAIN broadcasts : \A j \in DOMAIN ws_queue :
          broadcasts[i].event < ws_queue[j]
    /\ \A j \in DOMAIN note_data :
          note_data[j].dispatched <=>
              \/ \E i \in DOMAIN ws_queue : ws_queue[i] = note_data[j].index
              \/ \E i \in DOMAIN broadcasts : broadcasts[i].event = note_data[j].index
    /\ \A j \in DOMAIN absorbed :
          /\ note_data[j].pitch = absorbed[j][1]
          /\ note_data[j].step = absorbed[j][2] * speed
          /\ note_data[j].duration = absorbed[j][3] * speed
    /\ Len(played) <= Len(note_data)
    /\ \A j \in DOMAIN played :
          /\ played[j].pitch = note_data[j].pitch
          /\ played[j].duration = note_data[j].duration

C32_Witness ==
    /\ speed = 2
    /\ count = 2
    /\ Len(broadcasts) = 2
    /\ broadcasts[1].event = 0
    /\ broadcasts[2].event = 1
    /\ note_data[1].dispatched
    /\ note_data[2].dispatched
    /\ note_data[2].duration = 2 * absorbed[2][3]
    /\ note_data[2].duration = 40
    /\ played[2].duration = 40

\* C33: the main thread holds the device lock only around the single write
\* of a note-on or a note-off, never during the sleep of play_note; a gesture
\* thread that wants the lock while the main thread sleeps finds it free.
C33_LockNotHeldWhileAsleep ==
    /\ midi_lock = "main" => pc \in {"note_on_send", "note_off_send"}
    /\ pc = "sleep" => midi_lock # "main"
    /\ (pc = "sleep" /\ gpc = "cc_lock") => midi_lock = "free"

C33_Witness ==
    /\ pc = "sleep"
    /\ sounding = {60}
    /\ melodic = NoteOnMessages(60, 0)
    /\ lastWrite.by = "gesture"
    /\ Len(ccWrites) >= 1

\* C34: once the cleanup has sent its first control reset the gesture thread
\* writes nothing more to the device: every later write is the cleanup's, and
\* when the cleanup has run to its end every control the device holds a
\* value for is at 0.
C34_NoControlAfterReset ==
    /\ ccIdx >= 1 => lastWrite.by = "main"
    /\ pc = "done" => \A key \in DOMAIN ccDev : ccDev[key] = 0

\* the control changes the controller has written for a control number
WritesOf(cc) == {j \in DOMAIN ccWrites : ccWrites[j].cc = cc}

\* C35: between send_cc calls, the value stored for a (control, channel) key
\* is the value of the latest control change the controller has written to
\* the device for that key, also after a send that failed.
C35_DedupTracksDevice ==
    gpc \in {"loop", "exited", "died"} =>
        \A key \in DOMAIN last_cc_values :
            /\ WritesOf(key[1]) # {}
            /\ \E j \in WritesOf(key[1]) :
                  /\ \A k \in WritesOf(key[1]) : k <= j
                  /\ ccWrites[j].value = last_cc_values[key]

\* the part of C35 that holds: while no send has failed, the stored value is
\* the latest value written
DedupTracksDeviceUntilFailure ==
    gpc \in {"loop", "exited"} =>
        \A key \in DOMAIN last_cc_values :
            \E j \in WritesOf(key[1]) :
                /\ \A k \in WritesOf(key[1]) : k <= j
                /\ ccWrites[j].value = last_cc_values[key]

\* C36: no note is left sounding: when the port is closed, and when generate
\* has run to its end (after the count limit, a stop signal or an exception),
\* every note-on play_note has written is followed by a note-off for its
\* pitch, written by play_note or by the cleanup, and the device has no
\* pitch sounding.
C36_NoNoteLeftSounding ==
    (~midi_open \/ pc = "done") =>
        /\ sounding = {}
        /\ \A i \in DOMAIN melodic :
              melodic[i].kind = "note_on" =>
                  \/ melodic[i].pitch \in CleanupNotesSent
                  \/ \E j \in DOMAIN melodic :
                        /\ j > i
                        /\ melodic[j].kind = "note_off"
                        /\ melodic[j].pitch = melodic[i].pitch

C36_Witness ==
    /\ pc = "done"
    /\ ~midi_open
    /\ cause = "interrupt"
    /\ Len(melodic) = 3
    /\ melodic[3].kind = "note_on"
    /\ melodic[3].pitch = 62
    /\ sounding = {}

\* C37: a step of the gesture thread leaves the context window, the note
\* counter and prev_start unchanged, and a step of the main thread leaves the
\* dedup map and the two smoothing buffers unchanged.
C37_DisjointState ==
    [][/\ (gpc' # gpc \/ ctlVars' # ctlVars) =>
             UNCHANGED <<current_notes, count, prev_start>>
       /\ (pc' # pc \/ loopVars' # loopVars \/ cleanVars' # cleanVars) =>
             UNCHANGED <<last_cc_values, position_buffer_x, position_buffer_y>>]_vars

C37_Witness ==
    /\ count = 1
    /\ Len(absorbed) = 1
    /\ prev_start = 5
    /\ frames = 1
    /\ Len(position_buffer_x) = 1
    /\ CcKey(CC_FILTER_CUTOFF) \in DOMAIN last_cc_values
    /\ Len(current_notes) = SEQUENCE_LENGTH

\* C38: the device lock is held only by a thread that is inside a with
\* statement, so it is released after every write, a raising one included;
\* a thread waiting for the lock does not hold it; when both threads wait the
\* lock is free, and when one waits the holder is at its send.
C38_LockNeverLeaked ==
    /\ midi_lock = "main" => pc \in {"note_on_send", "note_off_send"}
    /\ midi_lock = "gesture" => gpc = "cc_send"
    /\ pc \in {"note_on", "note_off"} => midi_lock # "main"
    /\ gpc = "cc_lock" => midi_lock # "gesture"
    /\ (pc \in {"note_on", "note_off"} /\ gpc = "cc_lock") => midi_lock = "free"
    /\ gpc \in {"died", "exited", "loop"} => midi_lock # "gesture"
    /\ pc \notin LoopPcs => midi_lock # "main"

C38_Witness ==
    /\ pc = "note_off"
    /\ gpc = "died"
    /\ midi_lock = "free"
    /\ sounding = {60}

\* the note-ons one play_notes call has written
PolyNoteOns == SelectSeq(poly_out, LAMBDA m : m.type = "note_on")

\* C39: the two note-on messages written by one play_notes call have
\* different pitches, for every melody note and every harmony note that
\* predict_next_notes produces.
C39_DistinctPitches ==
    Len(PolyNoteOns) = 2 => PolyNoteOns[1].note # PolyNoteOns[2].note

=============================================================================
